---- MODULE Spec2Model ----
(***************************************************************************)
(* Model of the Brave web-search connector                                 *)
(* (python/semantic_kernel/connectors/brave.py).                           *)
(*                                                                         *)
(* One search invocation is a small sequential process:                    *)
(*   search -> _validate_options -> _build_request_parameters ->           *)
(*   HTTP GET (try/except) -> result mapping.                              *)
(* The pure parts (option validation, filter assembly, response mapping)   *)
(* are operators; the actions apply them.                                  *)
(***************************************************************************)
EXTENDS Integers, Sequences, FiniteSets, TLC

VARIABLES
    pc,                  \* position of the invocation
    query, top, skip,    \* arguments of search / SearchOptions
    filter,              \* SearchOptions.filter: none, one expression, a list
    include_total_count, \* SearchOptions.include_total_count
    output_type,         \* "str" | "TextSearchResult" | "Any"
    params,              \* the request parameters dict (None before it is built)
    parsed,              \* number of _parse_filter_lambda calls in this invocation
    requests,            \* number of client.get calls in this invocation
    raised,              \* exception raised inside the try block, if any
    error,               \* exception that leaves the invocation, if any
    cause,               \* __cause__ of that exception
    response,            \* decoded BraveSearchResponse
    results,             \* items of KernelSearchResults.results
    total_count          \* KernelSearchResults.total_count

vars == <<pc, query, top, skip, filter, include_total_count, output_type, params,
          parsed, requests, raised, error, cause, response, results, total_count>>

-----------------------------------------------------------------------------
(* Bounds of the model *)

\* how far below and above the documented option ranges top and skip are drawn
Margin == 2
\* total number of comparisons / unparsable expressions in one filter argument
MaxComparisons == 3
\* number of web-page results in a response payload
MaxResults == 2

-----------------------------------------------------------------------------
(* Values *)

\* Python None, for optional strings
None == "<None>"

\* dict values are str | int: tagged so that they can be compared
StrVal(s) == [str |-> s]
IntVal(n) == [int |-> n]

\* Optional[int]
NoCount == <<>>
Count(n) == <<n>>

NoParams == [built |-> FALSE]

\* the allow-list with a base key on it
QUERY_PARAMETERS_WithQ ==
    <<"q", "country", "search_lang", "ui_lang", "safesearch",
      "text_decorations", "spellcheck", "result_filter", "units">>

\* QUERY_PARAMETERS: the filter fields the API accepts
QUERY_PARAMETERS ==
    <<"country", "search_lang", "ui_lang", "safesearch",
      "text_decorations", "spellcheck", "result_filter", "units">>

Range(s) == {s[i] : i \in DOMAIN s}

-----------------------------------------------------------------------------
(* Option validation *)

\* _validate_options with the upper bound of top off by one
ValidateOptionsOffByOne(t, s) ==
    IF t <= 0 THEN "count value must be greater than 0."
    ELSE IF t > 21 THEN "count value must be less than 21."
    ELSE IF s < 0 THEN "offset must be greater than or equal to 0."
    ELSE IF s > 9 THEN "offset must be less than 10."
    ELSE "ok"

\* _validate_options: the message of the ServiceInvalidRequestError raised,
\* or "ok" when the method returns normally
ValidateOptions(t, s) ==
    IF t <= 0 THEN "count value must be greater than 0."
    ELSE IF t >= 21 THEN "count value must be less than 21."
    ELSE IF s < 0 THEN "offset must be greater than or equal to 0."
    ELSE IF s > 9 THEN "offset must be less than 10."
    ELSE "ok"

-----------------------------------------------------------------------------
(* Filter expressions *)

\* A literal operand of a comparison
Literals == {StrVal("a"), IntVal(1)}

Digit(n) == CASE n = 0 -> "0" [] n = 1 -> "1" [] n = 2 -> "2" [] n = 3 -> "3"
              [] n = 4 -> "4" [] n = 5 -> "5" [] n = 6 -> "6" [] n = 7 -> "7"
              [] n = 8 -> "8" [] n = 9 -> "9"

RECURSIVE Decimal(_)
Decimal(n) == IF n < 10 THEN Digit(n) ELSE Decimal(n \div 10) \o Digit(n % 10)

\* str(literal)
Stringify(l) ==
    IF "str" \in DOMAIN l THEN l.str
    ELSE IF l.int < 0 THEN "-" \o Decimal(0 - l.int) ELSE Decimal(l.int)

\* A node of the parsed expression: a comparison `x.field op operand`, or a
\* construct outside the grammar (a disjunction, a call)
Node(o, f, v) == [op |-> o, field |-> f, vals |-> v]

\* x.field == literal, field on the allow-list
EqTerms == {Node("Eq", f, <<l>>) : f \in {"country", "units"}, l \in Literals}
\* x.field == literal, field not on the allow-list (base keys included)
DisallowedTerms == {Node("Eq", f, <<StrVal("a")>>) : f \in {"q", "count", "offset", "title"}}
\* x.field in [literals]
InLists == {<<>>, <<StrVal("a"), IntVal(1)>>}
InTerms == {Node("In", "country", l) : l \in InLists}
\* a construct outside the grammar: a disjunction
UnsupportedTerms == {Node("Or", "", <<>>)}

Terms == EqTerms \cup DisallowedTerms \cup InTerms \cup UnsupportedTerms

\* An expression text: "" (empty), text that is not an expression, or text
\* that parses to one node or to a conjunction (`and`) of nodes
EmptyText == [kind |-> "empty", terms |-> <<>>]
BadSyntax == [kind |-> "syntaxerror", terms |-> <<>>]
Ast(ts) == [kind |-> "ast", terms |-> ts]

RECURSIVE SeqsOfLen(_, _)
SeqsOfLen(S, n) ==
    IF n = 0 THEN {<<>>}
    ELSE LET rest == SeqsOfLen(S, n - 1) IN {<<x>> \o r : x \in S, r \in rest}

\* expressions that use n units of the comparison budget
ExprsOfSize(n) ==
    {Ast(ts) : ts \in SeqsOfLen(Terms, n)} \cup (IF n = 1 THEN {EmptyText, BadSyntax} ELSE {})

\* lists of expressions that use at most the given budget
RECURSIVE FilterLists(_)
FilterLists(budget) ==
    {<<>>} \cup
    UNION {LET rest == FilterLists(budget - n)
           IN  {<<e>> \o r : e \in ExprsOfSize(n), r \in rest} : n \in 1..budget}

NoFilter == [kind |-> "none", exprs |-> <<>>]
OneFilter(e) == [kind |-> "one", exprs |-> <<e>>]
ListFilter(es) == [kind |-> "list", exprs |-> es]

\* the filter arguments whose first expression uses n units of the budget
\* (n = 0: no expression at all): None and [], or one expression and the
\* lists that start with it
FilterInputs(n) ==
    IF n = 0 THEN {NoFilter, ListFilter(<<>>)}
    ELSE LET rest == FilterLists(MaxComparisons - n)
         IN  {OneFilter(e) : e \in ExprsOfSize(n)}
             \cup {ListFilter(<<e>> \o r) : e \in ExprsOfSize(n), r \in rest}

-----------------------------------------------------------------------------
(* SearchLambdaVisitor (semantic_kernel.connectors._search_shared) *)

\* visiting one node with the pairs collected so far: a comparison appends its
\* pairs, anything else (or a field off the allow-list) raises
VisitNode(acc, t, valid_parameters) ==
    IF t.op \notin {"Eq", "In"} THEN [raised |-> TRUE, filters |-> acc]
    ELSE IF t.field \notin Range(valid_parameters) THEN [raised |-> TRUE, filters |-> acc]
    ELSE [raised |-> FALSE,
          filters |-> acc \o [i \in 1..Len(t.vals) |-> <<t.field, Stringify(t.vals[i])>>]]

\* visitor.visit(node): the nodes of a conjunction are visited left to right;
\* filters is visitor.filters when the visit returns or raises
RECURSIVE Visit(_, _, _, _)
Visit(ts, i, acc, valid_parameters) ==
    IF i > Len(ts) THEN [raised |-> FALSE, filters |-> acc]
    ELSE LET r == VisitNode(acc, ts[i], valid_parameters)
         IN  IF r.raised THEN r ELSE Visit(ts, i + 1, r.filters, valid_parameters)

-----------------------------------------------------------------------------
(* Request parameters *)

\* _parse_filter_lambda with the visit's partial list returned when it raises
ParseFilterLambdaPartial(expr) ==
    IF expr.kind # "ast" THEN [raised |-> TRUE, filters |-> <<>>]
    ELSE [raised |-> FALSE, filters |-> Visit(expr.terms, 1, <<>>, QUERY_PARAMETERS).filters]

\* _parse_filter_lambda: ast.parse raises on text that is not an expression;
\* an exception of the visit propagates, otherwise visitor.filters is returned
ParseFilterLambda(expr) ==
    IF expr.kind # "ast" THEN [raised |-> TRUE, filters |-> <<>>]
    ELSE LET v == Visit(expr.terms, 1, <<>>, QUERY_PARAMETERS)
         IN  IF v.raised THEN [raised |-> TRUE, filters |-> <<>>]
             ELSE [raised |-> FALSE, filters |-> v.filters]

\* params[field] = value
SetItem(p, field, value) ==
    [k \in DOMAIN p \cup {field} |-> IF k = field THEN value ELSE p[k]]

\* the two inner loops of _build_request_parameters over one parsed filter
RECURSIVE AssignPairs(_, _, _)
AssignPairs(p, pairs, i) ==
    IF i > Len(pairs) THEN p
    ELSE AssignPairs(SetItem(p, pairs[i][1], StrVal(pairs[i][2])), pairs, i + 1)

\* {"q": query or "", "count": options.top, "offset": options.skip}
BaseParametersNoDefault(q, t, s) ==
    [k \in {"q", "count", "offset"} |->
        CASE k = "q" -> StrVal(q)
          [] k = "count" -> IntVal(t)
          [] k = "offset" -> IntVal(s)]

BaseParameters(q, t, s) ==
    [k \in {"q", "count", "offset"} |->
        CASE k = "q" -> StrVal(IF q = None \/ q = "" THEN "" ELSE q)
          [] k = "count" -> IntVal(t)
          [] k = "offset" -> IntVal(s)]

\* `not options.filter`: None, "" and [] are falsy
Falsy(f) ==
    \/ f.kind = "none"
    \/ f.kind = "one" /\ f.exprs[1].kind = "empty"
    \/ f.kind = "list" /\ f.exprs = <<>>

\* the loop `for f in filters` of _build_request_parameters with the first
\* value of a field kept
RECURSIVE FilterLoopFirstWins(_, _, _)
FilterLoopFirstWins(p, fs, i) ==
    IF i > Len(fs) THEN p
    ELSE LET r == ParseFilterLambda(fs[i])
             q == IF r.raised THEN p ELSE AssignPairs(p, r.filters, 1)
         IN  FilterLoopFirstWins([k \in DOMAIN q |-> IF k \in DOMAIN p THEN p[k] ELSE q[k]], fs, i + 1)

\* the loop `for f in filters` of _build_request_parameters: a filter whose
\* parse raises is skipped (warning logged), the others assign their pairs
RECURSIVE FilterLoop(_, _, _)
FilterLoop(p, fs, i) ==
    IF i > Len(fs) THEN p
    ELSE LET r == ParseFilterLambda(fs[i])
         IN  FilterLoop(IF r.raised THEN p ELSE AssignPairs(p, r.filters, 1), fs, i + 1)

\* _build_request_parameters
BuildRequestParameters(q, t, s, f) ==
    IF Falsy(f) THEN BaseParameters(q, t, s)
    ELSE FilterLoop(BaseParameters(q, t, s), f.exprs, 1)

\* number of _parse_filter_lambda calls _build_request_parameters makes
ParseCalls(f) == IF Falsy(f) THEN 0 ELSE Len(f.exprs)

-----------------------------------------------------------------------------
(* Response payload and its mapping *)

\* BraveWebPage: every field optional
WebPages ==
    [title : {None, "t"}, url : {None, "u"}, description : {None, "", "d"}]

\* BraveSearchResponse: web_pages is None, or carries the list of results
NoWebPages == [web |-> FALSE, results |-> <<>>]
WithWebPages(rs) == [web |-> TRUE, results |-> rs]

Payloads ==
    {NoWebPages} \cup
    {WithWebPages(rs) : rs \in UNION {SeqsOfLen(WebPages, n) : n \in 0..MaxResults}}

\* _get_result_strings yielding web_page.description as it is
GetResultStringsRaw(resp) ==
    IF ~resp.web THEN <<>>
    ELSE [i \in 1..Len(resp.results) |-> resp.results[i].description]

\* _get_result_strings: web_page.description or ""
GetResultStrings(resp) ==
    IF ~resp.web THEN <<>>
    ELSE [i \in 1..Len(resp.results) |->
            IF resp.results[i].description = None THEN "" ELSE resp.results[i].description]

\* _get_text_search_results
GetTextSearchResults(resp) ==
    IF ~resp.web THEN <<>>
    ELSE [i \in 1..Len(resp.results) |->
            [name |-> resp.results[i].title,
             value |-> resp.results[i].description,
             link |-> resp.results[i].url]]

\* _get_brave_web_pages
GetBraveWebPages(resp) ==
    IF ~resp.web THEN <<>> ELSE resp.results

\* _get_total_count with the include_total_count flag ignored
GetTotalCountAlways(resp, itc) ==
    IF resp.web THEN Count(Len(resp.results)) ELSE NoCount

\* _get_total_count
GetTotalCount(resp, itc) ==
    IF itc /\ resp.web THEN Count(Len(resp.results)) ELSE NoCount

\* the results argument of KernelSearchResults in search
SelectResults(resp, ot) ==
    IF ot = "str" THEN GetResultStrings(resp)
    ELSE IF ot = "TextSearchResult" THEN GetTextSearchResults(resp)
    ELSE GetBraveWebPages(resp)

-----------------------------------------------------------------------------
(* The HTTP call *)

SIRE == "ServiceInvalidRequestError"

\* what can be raised inside the try block: raise_for_status, the transport
\* (connect / timeout), model_validate_json, anything else deriving from
\* Exception; CancelledError derives from BaseException only
ExceptionSubclasses == {"HTTPStatusError", "ConnectError", "ReadTimeout", "ValidationError", "RuntimeError"}
RequestErrorSubclasses == {"ConnectError", "ReadTimeout"}
BaseExceptionOnly == {"CancelledError"}
Raisable == ExceptionSubclasses \cup BaseExceptionOnly

\* the except clauses of _inner_search without the final `except Exception`
HandleNoCatchAll(exc) ==
    IF exc = "HTTPStatusError" THEN [error |-> SIRE, cause |-> exc]
    ELSE IF exc \in RequestErrorSubclasses THEN [error |-> SIRE, cause |-> exc]
    ELSE [error |-> exc, cause |-> None]

\* the except clauses of _inner_search: what leaves the call, and its __cause__
Handle(exc) ==
    IF exc = "HTTPStatusError" THEN [error |-> SIRE, cause |-> exc]
    ELSE IF exc \in RequestErrorSubclasses THEN [error |-> SIRE, cause |-> exc]
    ELSE IF exc \in ExceptionSubclasses THEN [error |-> SIRE, cause |-> exc]
    ELSE [error |-> exc, cause |-> None]

\* a handler that goes back to the request instead of raising
AfterFailureRetry == "request"

\* every except clause ends in `raise`: the invocation is over
AfterFailure == "failed"

-----------------------------------------------------------------------------
(* Inputs *)

Queries == {None, "", "cats"}
OutputTypes == {"str", "TextSearchResult", "Any"}
TopRange == (0 - Margin)..(21 + Margin)
SkipRange == (0 - Margin)..(9 + Margin)

InBounds(t, s) == t \in 1..20 /\ s \in 0..9

-----------------------------------------------------------------------------
(* Actions *)

\* search, line 157: the options are built and _inner_search is entered
Search(q, t, s, f, itc, ot) ==
    /\ pc = "idle"
    /\ pc' = "validate"
    /\ query' = q /\ top' = t /\ skip' = s /\ filter' = f
    /\ include_total_count' = itc /\ output_type' = ot
    /\ params' = NoParams /\ parsed' = 0 /\ requests' = 0
    /\ raised' = None /\ error' = None /\ cause' = None
    /\ response' = NoWebPages /\ results' = <<>> /\ total_count' = NoCount

\* _inner_search, line 212
Validate ==
    /\ pc = "validate"
    /\ IF ValidateOptions(top, skip) = "ok"
       THEN pc' = "build" /\ UNCHANGED error
       ELSE pc' = "failed" /\ error' = SIRE
    /\ UNCHANGED <<query, top, skip, filter, include_total_count, output_type, params,
                   parsed, requests, raised, cause, response, results, total_count>>

\* _inner_search, lines 219-227
Build ==
    /\ pc = "build"
    /\ params' = BuildRequestParameters(query, top, skip, filter)
    /\ parsed' = parsed + ParseCalls(filter)
    /\ pc' = "request"
    /\ UNCHANGED <<query, top, skip, filter, include_total_count, output_type,
                   requests, raised, error, cause, response, results, total_count>>

\* _inner_search, lines 228-232: the request succeeds and the body decodes
RequestOk(resp) ==
    /\ pc = "request"
    /\ requests' = requests + 1
    /\ response' = resp
    /\ pc' = "map"
    /\ UNCHANGED <<query, top, skip, filter, include_total_count, output_type, params,
                   parsed, raised, error, cause, results, total_count>>

\* _inner_search, lines 228-241: something is raised inside the try block
RequestFails(exc) ==
    /\ pc = "request"
    /\ requests' = requests + 1
    /\ raised' = exc
    /\ error' = Handle(exc).error
    /\ cause' = Handle(exc).cause
    /\ pc' = AfterFailure
    /\ UNCHANGED <<query, top, skip, filter, include_total_count, output_type, params,
                   parsed, response, results, total_count>>

\* search, lines 159-167
MapResults ==
    /\ pc = "map"
    /\ results' = SelectResults(response, output_type)
    /\ total_count' = GetTotalCount(response, include_total_count)
    /\ pc' = "done"
    /\ UNCHANGED <<query, top, skip, filter, include_total_count, output_type, params,
                   parsed, requests, raised, error, cause, response>>

\* the invocation is over (result returned or exception propagated); nothing
\* of it is kept by the connector
Return ==
    /\ pc \in {"done", "failed"}
    /\ pc' = "idle"
    /\ query' = None /\ top' = 5 /\ skip' = 0 /\ filter' = NoFilter
    /\ include_total_count' = FALSE /\ output_type' = "str"
    /\ params' = NoParams /\ parsed' = 0 /\ requests' = 0
    /\ raised' = None /\ error' = None /\ cause' = None
    /\ response' = NoWebPages /\ results' = <<>> /\ total_count' = NoCount

-----------------------------------------------------------------------------
(* Specifications *)

\* a representative of each kind of filter argument for whole invocations
FlowFilters ==
    {NoFilter,
     OneFilter(Ast(<<Node("Eq", "country", <<StrVal("a")>>)>>)),
     ListFilter(<<BadSyntax, Ast(<<Node("Eq", "units", <<IntVal(1)>>)>>)>>)}

FlowPayloads ==
    {NoWebPages, WithWebPages(<<>>),
     WithWebPages(<<[title |-> "t", url |-> "u", description |-> None]>>)}

\* the connector after construction: no invocation yet
Init ==
    /\ pc = "idle"
    /\ query = None /\ top = 5 /\ skip = 0 /\ filter = NoFilter
    /\ include_total_count = FALSE /\ output_type = "str"
    /\ params = NoParams /\ parsed = 0 /\ requests = 0
    /\ raised = None /\ error = None /\ cause = None
    /\ response = NoWebPages /\ results = <<>> /\ total_count = NoCount

\* a caller invokes search on the idle connector
Invoke ==
    /\ pc = "idle"
    /\ \E t \in TopRange, s \in SkipRange, f \in FlowFilters,
          itc \in BOOLEAN, ot \in OutputTypes : Search("cats", t, s, f, itc, ot)

Next ==
    \/ Invoke
    \/ Validate
    \/ Build
    \/ \E resp \in FlowPayloads : RequestOk(resp)
    \/ \E exc \in Raisable : RequestFails(exc)
    \/ MapResults
    \/ Return

\* whole invocations, one after the other
Spec == Init /\ [][Next]_vars

\* query, top and skip of the calls that carry filter expressions
BuildCalls == {<<None, 1, 0>>, <<"", 20, 9>>, <<"cats", 5, 3>>}

\* _build_request_parameters over every filter argument within the bounds,
\* entered with options that passed validation
InitBuild ==
    /\ pc = "build"
    /\ \/ /\ query \in Queries /\ top \in {1, 5, 20} /\ skip \in {0, 9}
          /\ filter \in FilterInputs(0)
       \/ /\ \E c \in BuildCalls : query = c[1] /\ top = c[2] /\ skip = c[3]
          /\ \E n \in 1..MaxComparisons : filter \in FilterInputs(n)
    /\ include_total_count = FALSE /\ output_type = "str"
    /\ params = NoParams /\ parsed = 0 /\ requests = 0
    /\ raised = None /\ error = None /\ cause = None
    /\ response = NoWebPages /\ results = <<>> /\ total_count = NoCount

SpecBuild == InitBuild /\ [][Build]_vars

\* the result mapping of search over every payload within the bounds, entered
\* after a successful request
InitMap ==
    /\ pc = "map"
    /\ query = "cats" /\ top = 5 /\ skip = 0 /\ filter = NoFilter
    /\ include_total_count \in BOOLEAN /\ output_type \in OutputTypes
    /\ params = BuildRequestParameters("cats", 5, 0, NoFilter)
    /\ parsed = 0 /\ requests = 1
    /\ raised = None /\ error = None /\ cause = None
    /\ response \in Payloads /\ results = <<>> /\ total_count = NoCount

SpecMap == InitMap /\ [][MapResults]_vars

-----------------------------------------------------------------------------
(* Vocabulary of the properties *)

BaseKeys == {"q", "count", "offset"}

AllowList ==
    {"country", "search_lang", "ui_lang", "safesearch",
     "text_decorations", "spellcheck", "result_filter", "units"}

OptionsInBounds == top >= 1 /\ top <= 20 /\ skip >= 0 /\ skip <= 9

\* the expression is inside the grammar: a comparison or a conjunction of
\* comparisons (== or in) on allow-listed fields
Parses(e) ==
    /\ e.kind = "ast"
    /\ \A i \in DOMAIN e.terms :
          e.terms[i].op \in {"Eq", "In"} /\ e.terms[i].field \in AllowList

\* the (field, value) pairs the expression denotes
PairsOf(e) ==
    UNION {{<<e.terms[i].field, Stringify(e.terms[i].vals[j])>> : j \in DOMAIN e.terms[i].vals} :
              i \in DOMAIN e.terms}

\* the pairs of one expression in order: comparison by comparison, and inside
\* a membership comparison element by element
RECURSIVE PairSeq(_, _)
PairSeq(ts, i) ==
    IF i > Len(ts) THEN <<>>
    ELSE [j \in 1..Len(ts[i].vals) |-> <<ts[i].field, Stringify(ts[i].vals[j])>>]
         \o PairSeq(ts, i + 1)

\* the pairs of the expressions that parse, in expression order
RECURSIVE ParsedPairs(_, _)
ParsedPairs(fs, i) ==
    IF i > Len(fs) THEN <<>>
    ELSE (IF Parses(fs[i]) THEN PairSeq(fs[i].terms, 1) ELSE <<>>) \o ParsedPairs(fs, i + 1)

Last(S) == CHOOSE m \in S : \A n \in S : n <= m

QueryOrEmpty == IF query = None \/ query = "" THEN "" ELSE query

-----------------------------------------------------------------------------
(* Properties *)

\* C1: _validate_options passes for every top in 1..20 with every skip in
\* 0..9, and raises ServiceInvalidRequestError when top <= 0, top >= 21,
\* skip < 0 or skip > 9.
ValidationRanges ==
    [][pc = "validate" =>
        IF top \in 1..20 /\ skip \in 0..9
        THEN pc' = "build" /\ error' = None
        ELSE pc' = "failed" /\ error' = SIRE]_vars

ValidationRejected ==
    pc = "failed" /\ error = SIRE /\ requests = 0 /\ top \in 1..20 /\ skip = 10

\* C2: an expression whose parse fails contributes no field (not even from a
\* valid comparison before the unsupported construct), every expression that
\* parses contributes its fields, and the build never raises.
FailedFilterDropped ==
    pc = "request" =>
        /\ error = None
        /\ params # NoParams
        /\ \A k \in DOMAIN params \ BaseKeys :
              \E i \in DOMAIN filter.exprs :
                 /\ Parses(filter.exprs[i])
                 /\ \E pr \in PairsOf(filter.exprs[i]) : pr[1] = k /\ params[k] = StrVal(pr[2])
        /\ \A i \in DOMAIN filter.exprs :
              Parses(filter.exprs[i]) =>
                 \A pr \in PairsOf(filter.exprs[i]) : pr[1] \in DOMAIN params

FailedFilterBetweenGoodOnes ==
    /\ pc = "request"
    /\ filter.kind = "list" /\ Len(filter.exprs) = 2
    /\ filter.exprs[1].kind = "ast" /\ Len(filter.exprs[1].terms) = 2
    /\ filter.exprs[1].terms[1].field = "country" /\ filter.exprs[1].terms[1].op = "Eq"
    /\ filter.exprs[1].terms[2].op = "Or"
    /\ Parses(filter.exprs[2])
    /\ DOMAIN params = BaseKeys \cup {"units"}

\* C3: every failure inside the try block of _inner_search (status error,
\* request error, any other exception) leaves the call as
\* ServiceInvalidRequestError with the original exception as its cause.
FailuresWrapped ==
    raised \in {"HTTPStatusError", "ConnectError", "ReadTimeout", "ValidationError", "RuntimeError"}
        => error = SIRE /\ cause = raised /\ pc = "failed"

DecodeFailureWrapped ==
    pc = "failed" /\ raised = "ValidationError" /\ error = SIRE /\ cause = "ValidationError"

\* C4: when top or skip is out of bounds the error is raised before any
\* filter is parsed and before any request is issued.
FailFast ==
    (pc # "idle" /\ ~OptionsInBounds) =>
        /\ parsed = 0 /\ requests = 0 /\ params = NoParams
        /\ pc \in {"validate", "failed"}
        /\ pc = "failed" => error = SIRE

RejectedWithFilters ==
    pc = "failed" /\ top = 0 /\ Len(filter.exprs) = 2 /\ parsed = 0 /\ requests = 0

\* C5: the value of each filter field is the value of the last pair for that
\* field, in expression order then pair order, among the expressions that
\* parsed.
LastWriterWins ==
    pc = "request" =>
        LET all == IF Falsy(filter) THEN <<>> ELSE ParsedPairs(filter.exprs, 1)
        IN  \A j \in DOMAIN all :
               /\ all[j][1] \in DOMAIN params
               /\ params[all[j][1]] = StrVal(all[Last({n \in DOMAIN all : all[n][1] = all[j][1]})][2])

LaterFilterOverwrites ==
    /\ pc = "request"
    /\ filter.kind = "list" /\ Len(filter.exprs) = 2
    /\ filter.exprs[1] = Ast(<<Node("In", "country", <<StrVal("a"), IntVal(1)>>)>>)
    /\ filter.exprs[2] = Ast(<<Node("Eq", "country", <<StrVal("a")>>)>>)
    /\ params["country"] = StrVal("a")

\* C6: total_count is N for a payload with N web-page results when
\* include_total_count is set, and None otherwise; None without a web-page
\* section.
TotalCount ==
    pc = "done" =>
        /\ (response.web /\ include_total_count) => total_count = Count(Len(response.results))
        /\ (response.web /\ ~include_total_count) => total_count = NoCount
        /\ ~response.web => total_count = NoCount

CountedTwo ==
    pc = "done" /\ include_total_count /\ response.web /\ total_count = <<2>>

\* C7: without a web-page section every output shape is empty and nothing is
\* raised; with one, each shape has one item per result, in payload order
\* (the text shape gives "" for a result without description).
ResponseMapping ==
    pc = "done" =>
        /\ error = None
        /\ ~response.web => results = <<>>
        /\ response.web =>
              /\ Len(results) = Len(response.results)
              /\ \A i \in DOMAIN results :
                    LET page == response.results[i]
                    IN  CASE output_type = "str" ->
                               results[i] = (IF page.description = None THEN "" ELSE page.description)
                          [] output_type = "TextSearchResult" ->
                               /\ results[i].name = page.title
                               /\ results[i].value = page.description
                               /\ results[i].link = page.url
                          [] output_type = "Any" -> results[i] = page

TextOfMissingDescription ==
    /\ pc = "done" /\ output_type = "str" /\ response.web
    /\ Len(results) = 2
    /\ response.results[1].description = None /\ results[1] = ""
    /\ results[2] = "d"

\* C8: with no filter (absent or empty) the parameters are exactly q, count
\* and offset: q the query ("" when empty or absent), count top, offset skip.
NoFilterThreeKeys ==
    (pc = "request" /\ (filter.kind = "none" \/ filter.exprs = <<>> \/ filter.exprs = <<EmptyText>>)) =>
        /\ DOMAIN params = {"q", "count", "offset"}
        /\ params["q"] = StrVal(QueryOrEmpty)
        /\ params["count"] = IntVal(top)
        /\ params["offset"] = IntVal(skip)

AbsentQueryNoFilter ==
    pc = "request" /\ filter = NoFilter /\ query = None /\ params["q"] = StrVal("")

\* C9: an invocation issues at most one request and never retries: a failed
\* request ends the invocation in failure, a successful invocation issued
\* exactly one.
SingleRequest ==
    /\ requests \in {0, 1}
    /\ pc \in {"map", "done"} => requests = 1
    /\ raised # None => pc = "failed" /\ requests = 1 /\ error # None

FailedAfterOneRequest ==
    pc = "failed" /\ raised = "ReadTimeout" /\ requests = 1

\* C10: whatever the filters, q, count and offset keep the query, top and
\* skip, and every other key is an allow-listed field name.
BaseKeysKept ==
    pc = "request" =>
        /\ params["q"] = StrVal(QueryOrEmpty)
        /\ params["count"] = IntVal(top)
        /\ params["offset"] = IntVal(skip)
        /\ DOMAIN params \ {"q", "count", "offset"} \subseteq AllowList

BaseKeyFilterIgnored ==
    /\ pc = "request"
    /\ filter.kind = "list" /\ Len(filter.exprs) = 3
    /\ filter.exprs[1] = Ast(<<Node("Eq", "q", <<StrVal("a")>>)>>)
    /\ filter.exprs[2] = Ast(<<Node("Eq", "country", <<IntVal(1)>>)>>)
    /\ filter.exprs[3] = Ast(<<Node("Eq", "title", <<StrVal("a")>>)>>)
    /\ query = "cats" /\ params["q"] = StrVal("cats")
    /\ params["country"] = StrVal("1")

====
